---- MODULE Spec2Model ----
(***************************************************************************)
(* Model of src/Functions/nucolumnarConsistentHash.cpp: the functions      *)
(* NuColumnarHashRange (bucket of a tuple of column values) and            *)
(* NuColumnarConsistentHash (shard of (table, date, range_id) looked up in *)
(* the dictionary default.partition_map_dict).                             *)
(*                                                                         *)
(* std::size_t is modelled HashBits wide and UInt32 / int IntBits wide;    *)
(* all arithmetic on them is taken modulo 2^width as in the C++ code.      *)
(***************************************************************************)
EXTENDS Integers, Sequences, FiniteSets, TLC

\* ------------------------------------------------------------------ bounds
\* width of std::size_t in the model (64 in the build)
HashBits == 8
\* width of UInt32 and of int in the model (32 in the build)
IntBits == 5
\* number of argument columns of a NuColumnarHashRange call
MaxArgs == 2
\* number of rows of a block
MaxRows == 2
\* length of the string the dictionary stores as shard id
MaxShardLen == 2
\* worker threads evaluating NuColumnarHashRange concurrently
NumThreads == 2

RECURSIVE Pow2(_)
Pow2(n) == IF n = 0 THEN 1 ELSE 2 * Pow2(n - 1)

\* static_cast<std::size_t>(x): the value of x modulo 2^HashBits
SizeT(x) == x % Pow2(HashBits)
\* static_cast<std::size_t>(-1)
SIZE_MAX == SizeT(-1)

\* ------------------------------------------------- the bucket boundary table
NumBuckets == 16

\* mutant of unit_range: (N + 1) / 16, the size of a bucket, and not its last value
unit_range_bucket_size == SizeT(-1) \div 16 + 1

unit_range == (SizeT(-1) - 15) \div 16

\* the initializer expression of entry k (1-based), before it is reduced to
\* the width of std::size_t
RangeEntryExact(k) == IF k = NumBuckets THEN SIZE_MAX ELSE unit_range * k + (k - 1)

RangeEntry(k) == SizeT(RangeEntryExact(k))

HashRangesInit == [k \in 1..NumBuckets |-> RangeEntry(k)]

\* std::lower_bound(first, last, val): the number of elements skipped before
\* the first element that is not less than val (binary search on a sorted range)
RECURSIVE LowerBoundFrom(_, _, _, _)
LowerBoundFrom(ranges, first, len, val) ==
    IF len <= 0 THEN first
    ELSE LET half == len \div 2
             middle == first + half
         IN  IF ranges[middle + 1] < val
             THEN LowerBoundFrom(ranges, middle + 1, len - half - 1, val)
             ELSE LowerBoundFrom(ranges, first, half, val)

RECURSIVE UpperBoundFrom(_, _, _, _)
UpperBoundFrom(ranges, first, len, val) ==
    IF len <= 0 THEN first
    ELSE LET half == len \div 2
             middle == first + half
         IN  IF ~(val < ranges[middle + 1])
             THEN UpperBoundFrom(ranges, middle + 1, len - half - 1, val)
             ELSE UpperBoundFrom(ranges, first, half, val)

\* mutant of BucketIdx: std::upper_bound instead of std::lower_bound
BucketIdx_upper_bound(ranges, combinedHash) ==
    UpperBoundFrom(ranges, 0, Len(ranges), combinedHash) + 1

\* found = lower_bound(...); bucketIdx = found - hash_ranges.begin() + 1
BucketIdx(ranges, combinedHash) ==
    LowerBoundFrom(ranges, 0, Len(ranges), combinedHash) + 1

\* ------------------------------------------------------------- boost hashing
\* the low 16 bits of the constant 0x9e3779b9 of boost::hash_combine
HashMagicLow == 31161

RECURSIVE Xor(_, _)
Xor(a, b) ==
    IF a = 0 THEN b
    ELSE IF b = 0 THEN a
    ELSE ((a + b) % 2) + 2 * Xor(a \div 2, b \div 2)

\* boost::hash_combine(seed, v) with hv = boost::hash_value(v):
\*   seed ^= hv + 0x9e3779b9 + (seed << 6) + (seed >> 2)
hash_combine(seed, hv) ==
    Xor(seed, SizeT(hv + SizeT(HashMagicLow) + SizeT(seed * 64) + (seed \div 4)))

\* the character code of the characters the model uses
CharCode(c) ==
    CASE c = "a" -> 97
      [] c = "b" -> 98
      [] OTHER -> 63

\* boost::hash_value(std::string): hash_range over the characters
RECURSIVE hash_range(_, _)
hash_range(seed, str) ==
    IF str = <<>> THEN seed
    ELSE hash_range(hash_combine(seed, SizeT(CharCode(Head(str)))), Tail(str))

\* boost::hash_value of an integer: the value converted to std::size_t
hash_value_int(v) == SizeT(v)

\* -------------------------------------------------------------------- columns
SupportedTypes == {"UInt8", "Int8", "Int64", "String"}
SkippedTypes == {"UInt32", "UInt16"}
ColumnTypes == SupportedTypes \cup SkippedTypes

\* the values a column of each type holds in the model
ValuesOf(type) ==
    CASE type = "UInt8" -> {7, 200}
      [] type = "Int8" -> {-1, 5}
      [] type = "Int64" -> {-2, 9}
      [] type = "String" -> {<<"a">>, <<"a", "b">>}
      [] type = "UInt32" -> {5, 12}
      [] type = "UInt16" -> {1, 2}

\* a column with its data type: block.getByPosition(p).type and .column
ColumnsOf(type, n) == {[type |-> type, data |-> d] : d \in [1..n -> ValuesOf(type)]}

AllColumns(n) == UNION {ColumnsOf(type, n) : type \in ColumnTypes}

\* mutant of GetElement: reads the last row of the column instead of row 0
GetElement_last_row(col, row) == col.data[Len(col.data)]

\* getElement(row) / getDataAt(row) of a column; rows are numbered from 0
GetElement(col, row) == col.data[row + 1]

\* mutant of HashColumn: the default branch folds the value in as well
HashColumn_no_skip(seed, col) ==
    IF col.type = "String"
    THEN hash_combine(seed, hash_range(0, GetElement(col, 0)))
    ELSE hash_combine(seed, hash_value_int(GetElement(col, 0)))

\* one iteration of the loop of concatenatedHash: the switch on which.idx
HashColumn(seed, col) ==
    CASE col.type = "UInt8" -> hash_combine(seed, hash_value_int(GetElement(col, 0)))
      [] col.type = "Int8" -> hash_combine(seed, hash_value_int(GetElement(col, 0)))
      [] col.type = "Int64" -> hash_combine(seed, hash_value_int(GetElement(col, 0)))
      [] col.type = "String" -> hash_combine(seed, hash_range(0, GetElement(col, 0)))
      [] OTHER -> seed

\* mutant of SeedInit: the seed is left uninitialized and keeps what the
\* previous call of the thread left in it
SeedInit_stale(old) == old

\* std::size_t seed = 0
SeedInit(old) == 0

RECURSIVE concatenatedHashFrom(_, _, _)
concatenatedHashFrom(columns, i, seed) ==
    IF i >= Len(columns) THEN seed
    ELSE concatenatedHashFrom(columns, i + 1, HashColumn(seed, columns[i + 1]))

\* concatenatedHash(block, arguments): columns are the argument columns in order
concatenatedHash(columns) == concatenatedHashFrom(columns, 0, SeedInit(0))

\* static_cast<UInt32>(x)
UInt32Of(x) == x % Pow2(IntBits)

\* NuColumnarHashRange::executeImpl: the result column it stores in the block
HashRange_executeImpl(ranges, columns) ==
    LET combinedHash == concatenatedHash(columns)
        bucketIdx == BucketIdx(ranges, combinedHash)
    IN  <<UInt32Of(bucketIdx)>>

\* ------------------------------------------------- strings and conversions
Digits == <<"0", "1", "2", "3", "4", "5", "6", "7", "8", "9">>

IsDigit(c) == \E d \in 1..10 : Digits[d] = c

DigitValue(c) == (CHOOSE d \in 1..10 : Digits[d] = c) - 1

\* std::to_string of an unsigned value: its decimal digits, no leading zero
RECURSIVE to_string(_)
to_string(n) ==
    IF n < 10 THEN <<Digits[n + 1]>>
    ELSE Append(to_string(n \div 10), Digits[(n % 10) + 1])

INT_MAX == Pow2(IntBits - 1) - 1
INT_MIN == -Pow2(IntBits - 1)
UINT32_MAX == Pow2(IntBits) - 1

\* isspace of the characters the model uses
IsSpace(c) == c = " "

RECURSIVE SkipSpaces(_)
SkipSpaces(str) ==
    IF str # <<>> /\ IsSpace(Head(str)) THEN SkipSpaces(Tail(str)) ELSE str

\* the longest prefix of str made of digits
RECURSIVE DigitPrefix(_)
DigitPrefix(str) ==
    IF str # <<>> /\ IsDigit(Head(str)) THEN <<Head(str)>> \o DigitPrefix(Tail(str))
    ELSE <<>>

RECURSIVE DigitsValue(_, _)
DigitsValue(acc, ds) ==
    IF ds = <<>> THEN acc ELSE DigitsValue(acc * 10 + DigitValue(Head(ds)), Tail(ds))

\* std::stoi(str): skips leading whitespace, takes an optional sign and the
\* longest run of digits, ignores what follows; throws std::invalid_argument
\* when there is no digit and std::out_of_range when the value is no int
stoi(str) ==
    LET s1 == SkipSpaces(str)
        neg == s1 # <<>> /\ Head(s1) = "-"
        signed == s1 # <<>> /\ Head(s1) \in {"-", "+"}
        s2 == IF signed THEN Tail(s1) ELSE s1
        ds == DigitPrefix(s2)
        mag == DigitsValue(0, ds)
        v == IF neg THEN -mag ELSE mag
    IN  IF ds = <<>> THEN [status |-> "invalid_argument", value |-> 0]
        ELSE IF v > INT_MAX \/ v < INT_MIN THEN [status |-> "out_of_range", value |-> 0]
        ELSE [status |-> "ok", value |-> v]

\* ------------------------------------------------------ the mapping dictionary
\* the characters of the strings the dictionary stores as shard id
ShardChars == {"1", "9", "-", "a"}

RECURSIVE StringsUpTo(_)
StringsUpTo(n) ==
    IF n = 0 THEN {<<>>}
    ELSE LET shorter == StringsUpTo(n - 1)
         IN  shorter \cup {Append(str, c) : str \in shorter, c \in ShardChars}

ShardStrings == StringsUpTo(MaxShardLen)

TableNames == {"orders", "users"}
U32Values == {5, 12}

\* what ExternalDictionariesLoader holds under default.partition_map_dict when
\* a call looks it up: not loadable, a dictionary of another kind, or a
\* ComplexKeyHashedDictionary whose row ("orders", "12", 5) has shardA as "A"
DictStates ==
    {[loadable |-> FALSE, kind |-> "none", shardA |-> <<>>],
     [loadable |-> TRUE, kind |-> "FlatDictionary", shardA |-> <<>>]}
    \cup {[loadable |-> TRUE, kind |-> "ComplexKeyHashedDictionary", shardA |-> str] :
            str \in ShardStrings}

NoDict == [loadable |-> FALSE, kind |-> "none", shardA |-> <<>>]

\* the rows of the dictionary: composite key (table, date, range_id) and the
\* string attributes "A" and "B"
DictRows(d) ==
    {[key |-> <<"orders", <<"1", "2">>, 5>>, A |-> d.shardA, B |-> <<"1">>],
     [key |-> <<"users", <<"0", "5">>, 5>>, A |-> <<"9">>, B |-> <<"1">>]}

\* dict->getString(attr_name, key_columns, key_types, out): the attribute of
\* the row with that key, the empty string when there is none
getString(d, attr_name, key) ==
    IF \E row \in DictRows(d) : row.key = key
    THEN LET row == CHOOSE row \in DictRows(d) : row.key = key
         IN  IF attr_name = "A" THEN row.A ELSE row.B
    ELSE <<>>

\* ------------------------------------------------- NuColumnarConsistentHash
\* what a call ends with: a result column stored in the block, or an exception
\* with its class, its ErrorCodes value, its message text and the values
\* getDebugContext() appended to the message
NoOutcome ==
    [kind |-> "none", column |-> <<>>, exc_type |-> "", code |-> "", text |-> "",
     context |-> <<>>]

ResultColumn(col) ==
    [kind |-> "column", column |-> col, exc_type |-> "", code |-> "", text |-> "",
     context |-> <<>>]

Exception(exc_type, code, text, context) ==
    [kind |-> "exception", column |-> <<>>, exc_type |-> exc_type, code |-> code,
     text |-> text, context |-> context]

\* getDebugContext(): table, date, rangeId and activeVersion
getDebugContext(table, date, rangeId, activeVersion) ==
    <<table, date, rangeId, activeVersion>>

\* mutant of ShardIdEmpty: the check for an empty lookup result is missing
ShardIdEmpty_unchecked(shardId) == FALSE

\* shardId.empty()
ShardIdEmpty(shardId) == shardId = <<>>

\* lookupShard(table, date, rangeId, activeVersion) against the dictionary
\* state d: what it returns or throws, and the calls it made to the loader
\* (getDictionary) and to the dictionary (getString)
lookupShard(d, table, date, rangeId, activeVersion) ==
    LET ctx == getDebugContext(table, date, rangeId, activeVersion)
    IN  IF ~d.loadable
        THEN [ret |-> Exception("DB::Exception", "ILLEGAL_TYPE_OF_ARGUMENT",
                        "Shard not found as dictionary partition_map_dict can't be loaded for ",
                        ctx),
              value |-> 0, getDictionary |-> 1, getString |-> 0]
        ELSE IF d.kind # "ComplexKeyHashedDictionary"
        THEN [ret |-> Exception("DB::Exception", "ILLEGAL_TYPE_OF_ARGUMENT",
                        "Shard not found as dictionary partition_map_dict is not available for ",
                        ctx),
              value |-> 0, getDictionary |-> 1, getString |-> 0]
        ELSE LET key == <<table, to_string(date), rangeId>>
                 shardId == getString(d, activeVersion, key)
                 parsed == stoi(shardId)
             IN  IF ShardIdEmpty(shardId)
                 THEN [ret |-> Exception("DB::Exception", "ILLEGAL_TYPE_OF_ARGUMENT",
                                 "Shard not found in dictionary partition_map_dict for ",
                                 ctx),
                       value |-> 0, getDictionary |-> 1, getString |-> 1]
                 ELSE IF parsed.status = "ok"
                 THEN [ret |-> ResultColumn(<<>>), value |-> UInt32Of(parsed.value),
                       getDictionary |-> 1, getString |-> 1]
                 ELSE [ret |-> Exception("std::" \o parsed.status, "", "stoi", <<>>),
                       value |-> 0, getDictionary |-> 1, getString |-> 1]

\* NuColumnarConsistentHash::getReturnTypeImpl(arguments): the arity check
ConsistentHash_getReturnTypeImpl(types) ==
    IF Len(types) # 3
    THEN Exception("DB::Exception", "NUMBER_OF_ARGUMENTS_DOESNT_MATCH",
                   "Number of arguments for function NuColumnarConsistentHash doesn't match",
                   <<>>)
    ELSE NoOutcome

\* NuColumnarHashRange::getReturnTypeImpl(arguments): accepts any arguments
HashRange_getReturnTypeImpl(types) == NoOutcome

\* mutant of ArgTypeIs: the date argument is checked against Date, as the
\* comment above the check says, and not against UInt32
ArgTypeIs_date_as_Date(columns, arg, type) ==
    IF arg = 1 THEN columns[arg + 1].type = "Date" ELSE columns[arg + 1].type = type

\* block.getByPosition(arguments[arg]).type->getTypeId() == type
ArgTypeIs(columns, arg, type) == columns[arg + 1].type = type

\* the version attribute executeImpl passes to lookupShard
ActiveVersion == "A"

\* NuColumnarConsistentHash::executeImpl on the three argument columns, with
\* the dictionary in state d and debug logging on or off: the outcome, the
\* (argument, row) positions it read, and the dictionary calls it made
ConsistentHash_executeImpl(d, columns, log_debug) ==
    IF ~ArgTypeIs(columns, 0, "String")
    THEN [outcome |-> Exception("DB::Exception", "ILLEGAL_COLUMN",
                        "NuColumnarConsistentHash function's first argument 'table' is not 'String' type",
                        <<>>),
          reads |-> {}, getDictionary |-> 0, getString |-> 0]
    ELSE LET table == GetElement(columns[1], 0)
             debug_reads(arg) == IF log_debug THEN {<<arg, 0>>} ELSE {}
         IN  IF ~ArgTypeIs(columns, 1, "UInt32")
             THEN [outcome |-> Exception("DB::Exception", "ILLEGAL_COLUMN",
                                 "NuColumnarConsistentHash function's second argument 'date' is not 'UInt32' type",
                                 <<>>),
                   reads |-> {<<0, 0>>}, getDictionary |-> 0, getString |-> 0]
             ELSE IF ~ArgTypeIs(columns, 2, "UInt32")
             THEN [outcome |-> Exception("DB::Exception", "ILLEGAL_COLUMN",
                                 "NuColumnarConsistentHash function's sethirdcond argument 'range_id' is not 'UInt32' type",
                                 <<>>),
                   reads |-> {<<0, 0>>} \cup debug_reads(1),
                   getDictionary |-> 0, getString |-> 0]
             ELSE LET date == GetElement(columns[2], 0)
                      rangeId == GetElement(columns[3], 0)
                      looked == lookupShard(d, table, date, rangeId, ActiveVersion)
                  IN  [outcome |-> IF looked.ret.kind = "exception" THEN looked.ret
                                   ELSE ResultColumn(<<looked.value>>),
                       reads |-> {<<0, 0>>, <<1, 0>>, <<2, 0>>},
                       getDictionary |-> looked.getDictionary,
                       getString |-> looked.getString]

\* ---------------------------------------------------------------------- state
VARIABLES
    hash_ranges,    \* static std::vector<std::size_t> NuColumnarHashRange::hash_ranges
    phase,          \* of the function call: idle, bound, bind_failed, executed
    fn,             \* the function called
    arg_types,      \* the argument types given to getReturnTypeImpl
    block,          \* the argument columns given to executeImpl
    dict,           \* the dictionary state the call found
    log_debug,      \* whether the logger has the debug level on
    outcome,        \* what the call ended with
    reads,          \* the (argument, row) positions executeImpl read
    dict_calls,     \* the calls made to the loader and to the dictionary
    range_hash,     \* a combined hash value handed to the bucket lookup
    range_bucket,   \* the bucket found for range_hash, 0 before the lookup
    pc,             \* per thread: idle, hash, search, done
    t_columns,      \* per thread: the argument columns of its call
    t_i,            \* per thread: the loop index of concatenatedHash
    t_seed,         \* per thread: the local seed of concatenatedHash
    t_result,       \* per thread: the result column of its call
    first_result    \* per input: the result of the first call that completed

callVars == <<phase, fn, arg_types, block, dict, log_debug, outcome, reads, dict_calls>>
rangeVars == <<range_hash, range_bucket>>
threadVars == <<pc, t_columns, t_i, t_seed, t_result, first_result>>
vars == <<hash_ranges, callVars, rangeVars, threadVars>>

Threads == 1..NumThreads

\* the inputs the concurrent calls draw from: one-row argument tuples
ConcInputs ==
    <<  <<[type |-> "UInt8", data |-> <<7>>]>>,
        <<[type |-> "Int64", data |-> <<-2>>], [type |-> "String", data |-> <<<<"a">>>>]>>,
        <<[type |-> "String", data |-> <<<<"a">>>>], [type |-> "Int64", data |-> <<-2>>]>>,
        <<[type |-> "UInt32", data |-> <<5>>], [type |-> "Int8", data |-> <<-1>>]>>  >>

NoCalls == [getDictionary |-> 0, getString |-> 0]

CallIdle ==
    /\ phase = "idle"
    /\ fn = "none"
    /\ arg_types = <<>>
    /\ block = <<>>
    /\ dict = NoDict
    /\ log_debug = FALSE
    /\ outcome = NoOutcome
    /\ reads = {}
    /\ dict_calls = NoCalls

RangeIdle == range_hash = 0 /\ range_bucket = 0

ThreadsIdle ==
    /\ pc = [t \in Threads |-> "idle"]
    /\ t_columns = [t \in Threads |-> <<>>]
    /\ t_i = [t \in Threads |-> 0]
    /\ t_seed = [t \in Threads |-> 0]
    /\ t_result = [t \in Threads |-> <<>>]
    /\ first_result = [k \in DOMAIN ConcInputs |-> <<>>]

\* ------------------------------------------- function calls, one at a time
Init ==
    /\ hash_ranges = HashRangesInit
    /\ CallIdle
    /\ RangeIdle
    /\ ThreadsIdle

HashRangeArgTypes == UNION {[1..k -> ColumnTypes] : k \in 1..MaxArgs}

ConsistentHashArgTypes == UNION {[1..k -> {"String", "UInt32"}] : k \in 2..4}

\* the host binds NuColumnarHashRange to argument types
BindHashRange ==
    /\ phase = "idle"
    /\ \E types \in HashRangeArgTypes :
        /\ fn' = "NuColumnarHashRange"
        /\ arg_types' = types
        /\ outcome' = HashRange_getReturnTypeImpl(types)
        /\ phase' = IF outcome'.kind = "exception" THEN "bind_failed" ELSE "bound"
    /\ UNCHANGED <<hash_ranges, block, dict, log_debug, reads, dict_calls, rangeVars, threadVars>>

\* the host binds NuColumnarConsistentHash to argument types
BindConsistentHash ==
    /\ phase = "idle"
    /\ \E types \in ConsistentHashArgTypes :
        /\ fn' = "NuColumnarConsistentHash"
        /\ arg_types' = types
        /\ outcome' = ConsistentHash_getReturnTypeImpl(types)
        /\ phase' = IF outcome'.kind = "exception" THEN "bind_failed" ELSE "bound"
    /\ UNCHANGED <<hash_ranges, block, dict, log_debug, reads, dict_calls, rangeVars, threadVars>>

\* the blocks of n rows whose columns have the bound types
RECURSIVE BlocksOf(_, _)
BlocksOf(types, n) ==
    IF types = <<>> THEN {<<>>}
    ELSE {Append(b, c) : b \in BlocksOf(SubSeq(types, 1, Len(types) - 1), n),
                         c \in ColumnsOf(types[Len(types)], n)}

ShardValuesOf(type) == IF type = "String" THEN TableNames ELSE U32Values

RECURSIVE ShardBlocksOf(_, _)
ShardBlocksOf(types, n) ==
    IF types = <<>> THEN {<<>>}
    ELSE {Append(b, [type |-> types[Len(types)], data |-> d]) :
            b \in ShardBlocksOf(SubSeq(types, 1, Len(types) - 1), n),
            d \in [1..n -> ShardValuesOf(types[Len(types)])]}

\* the host runs NuColumnarHashRange::executeImpl on a block
ExecuteHashRange ==
    /\ phase = "bound"
    /\ fn = "NuColumnarHashRange"
    /\ \E n \in 1..MaxRows : \E b \in BlocksOf(arg_types, n) :
        /\ block' = b
        /\ outcome' = ResultColumn(HashRange_executeImpl(hash_ranges, b))
    /\ phase' = "executed"
    /\ UNCHANGED <<hash_ranges, fn, arg_types, dict, log_debug, reads, dict_calls, rangeVars, threadVars>>

\* the host runs NuColumnarConsistentHash::executeImpl on a block
ExecuteConsistentHash ==
    /\ phase = "bound"
    /\ fn = "NuColumnarConsistentHash"
    /\ \E n \in 1..MaxRows : \E b \in ShardBlocksOf(arg_types, n) :
       \E d \in DictStates : \E dbg \in BOOLEAN :
        LET done == ConsistentHash_executeImpl(d, b, dbg)
        IN  /\ block' = b
            /\ dict' = d
            /\ log_debug' = dbg
            /\ outcome' = done.outcome
            /\ reads' = done.reads
            /\ dict_calls' = [getDictionary |-> done.getDictionary, getString |-> done.getString]
    /\ phase' = "executed"
    /\ UNCHANGED <<hash_ranges, fn, arg_types, rangeVars, threadVars>>

\* the call is over: the exception has propagated or the block was handed back
Finish ==
    /\ phase \in {"bind_failed", "executed"}
    /\ phase' = "idle"
    /\ fn' = "none"
    /\ arg_types' = <<>>
    /\ block' = <<>>
    /\ dict' = NoDict
    /\ log_debug' = FALSE
    /\ outcome' = NoOutcome
    /\ reads' = {}
    /\ dict_calls' = NoCalls
    /\ UNCHANGED <<hash_ranges, rangeVars, threadVars>>

Next ==
    \/ BindHashRange
    \/ BindConsistentHash
    \/ ExecuteHashRange
    \/ ExecuteConsistentHash
    \/ Finish

Spec == Init /\ [][Next]_vars

\* --------------------------------- the bucket lookup over the whole hash range
InitRange ==
    /\ hash_ranges = HashRangesInit
    /\ range_hash \in 0..SIZE_MAX
    /\ range_bucket = 0
    /\ CallIdle
    /\ ThreadsIdle

\* lines 258-259 of executeImpl applied to the combined hash range_hash
LookupBucket ==
    /\ range_bucket = 0
    /\ range_bucket' = BucketIdx(hash_ranges, range_hash)
    /\ UNCHANGED <<hash_ranges, range_hash, callVars, threadVars>>

\* the next call arrives with another combined hash
NextHash ==
    /\ range_bucket # 0
    /\ range_hash' \in 0..SIZE_MAX
    /\ range_bucket' = 0
    /\ UNCHANGED <<hash_ranges, callVars, threadVars>>

NextRange == LookupBucket \/ NextHash

SpecRange == InitRange /\ [][NextRange]_vars

\* ------------------------------ NuColumnarHashRange called by several threads
InitConc ==
    /\ hash_ranges = HashRangesInit
    /\ CallIdle
    /\ RangeIdle
    /\ ThreadsIdle

\* thread t enters executeImpl and concatenatedHash with input k
Call(t) ==
    /\ pc[t] = "idle"
    /\ \E k \in DOMAIN ConcInputs : t_columns' = [t_columns EXCEPT ![t] = ConcInputs[k]]
    /\ t_seed' = [t_seed EXCEPT ![t] = SeedInit(t_seed[t])]
    /\ t_i' = [t_i EXCEPT ![t] = 0]
    /\ t_result' = [t_result EXCEPT ![t] = <<>>]
    /\ pc' = [pc EXCEPT ![t] = "hash"]
    /\ UNCHANGED <<hash_ranges, first_result, callVars, rangeVars>>

\* one iteration of the loop of concatenatedHash
HashStep(t) ==
    /\ pc[t] = "hash"
    /\ t_i[t] < Len(t_columns[t])
    /\ t_seed' = [t_seed EXCEPT ![t] = HashColumn(t_seed[t], t_columns[t][t_i[t] + 1])]
    /\ t_i' = [t_i EXCEPT ![t] = t_i[t] + 1]
    /\ UNCHANGED <<hash_ranges, pc, t_columns, t_result, first_result, callVars, rangeVars>>

\* the loop is over: concatenatedHash returns the seed
HashReturn(t) ==
    /\ pc[t] = "hash"
    /\ t_i[t] >= Len(t_columns[t])
    /\ pc' = [pc EXCEPT ![t] = "search"]
    /\ UNCHANGED <<hash_ranges, t_columns, t_i, t_seed, t_result, first_result, callVars, rangeVars>>

InputIndex(columns) == CHOOSE k \in DOMAIN ConcInputs : ConcInputs[k] = columns

\* the lookup in hash_ranges and the store of the result column
Search(t) ==
    /\ pc[t] = "search"
    /\ LET col == <<UInt32Of(BucketIdx(hash_ranges, t_seed[t]))>>
           k == InputIndex(t_columns[t])
       IN  /\ t_result' = [t_result EXCEPT ![t] = col]
           /\ first_result' = IF first_result[k] = <<>>
                              THEN [first_result EXCEPT ![k] = col]
                              ELSE first_result
    /\ pc' = [pc EXCEPT ![t] = "done"]
    /\ UNCHANGED <<hash_ranges, t_columns, t_i, t_seed, callVars, rangeVars>>

\* executeImpl returns; the locals of the call are dead
Return(t) ==
    /\ pc[t] = "done"
    /\ pc' = [pc EXCEPT ![t] = "idle"]
    /\ t_columns' = [t_columns EXCEPT ![t] = <<>>]
    /\ t_i' = [t_i EXCEPT ![t] = 0]
    /\ t_result' = [t_result EXCEPT ![t] = <<>>]
    /\ UNCHANGED <<hash_ranges, t_seed, first_result, callVars, rangeVars>>

NextConc == \E t \in Threads : Call(t) \/ HashStep(t) \/ HashReturn(t) \/ Search(t) \/ Return(t)

SpecConc == InitConc /\ [][NextConc]_vars

\* ===================================================================== claims
\* ---- the bucket lookup (SpecRange)
InInterval(h, b) ==
    /\ IF b = 1 THEN 0 <= h ELSE hash_ranges[b - 1] < h
    /\ h <= hash_ranges[b]

\* C1: for every combined hash h of the whole range of std::size_t the bucket
\* found is in 1..16, it is the position of the first boundary >= h, and it
\* is the one and only interval (hash_ranges[b-1], hash_ranges[b]] (the first
\* one starting at 0) that holds h; a hash equal to a boundary is in that
\* boundary's bucket.
C1_BucketIsTheOneInterval ==
    range_bucket # 0 =>
        /\ range_bucket \in 1..16
        /\ hash_ranges[range_bucket] >= range_hash
        /\ \A j \in 1..(range_bucket - 1) : hash_ranges[j] < range_hash
        /\ \A b \in 1..16 : InInterval(range_hash, b) <=> b = range_bucket
        /\ \A b \in 1..16 : range_hash = hash_ranges[b] => range_bucket = b

C1_Witness ==
    /\ range_hash = SIZE_MAX
    /\ range_hash = hash_ranges[NumBuckets]
    /\ range_bucket = NumBuckets

\* C2: the table has 16 strictly increasing entries, the last one is the
\* maximum N of std::size_t, every bucket holds (N+1)/16 hash values, the first
\* being [0, (N+1)/16 - 1], and no initializer unit_range*k + (k-1) overflows.
C2_TableIsAnEvenPartition ==
    LET N == SIZE_MAX
        size == Pow2(HashBits) \div 16
    IN  /\ Len(hash_ranges) = 16
        /\ \A i \in 1..15 : hash_ranges[i] < hash_ranges[i + 1]
        /\ hash_ranges[16] = N
        /\ hash_ranges[1] = size - 1
        /\ \A i \in 2..16 : hash_ranges[i] - hash_ranges[i - 1] = size
        /\ \A k \in 1..15 : unit_range * k + (k - 1) <= N
        /\ \A k \in 1..15 : hash_ranges[k] = unit_range * k + (k - 1)

C2_Witness ==
    /\ range_bucket = 1
    /\ range_hash = hash_ranges[1]
    /\ range_hash = Pow2(HashBits) \div 16 - 1

\* ---- concurrent calls (SpecConc)
\* C3: in any interleaving of calls, every completed call returns what the
\* first completed call with the same ordered tuple returned, whatever calls
\* ran before or in between, two calls completed at the same time with the
\* same tuple agree, and the boundary table is what static initialization
\* made it.
C3_SameInputSameBucket ==
    /\ hash_ranges = HashRangesInit
    /\ \A t \in Threads : pc[t] = "done" =>
        /\ Len(t_result[t]) = 1
        /\ t_result[t] = first_result[InputIndex(t_columns[t])]
    /\ \A t1, t2 \in Threads :
        (pc[t1] = "done" /\ pc[t2] = "done" /\ t_columns[t1] = t_columns[t2])
            => t_result[t1] = t_result[t2]

C3_Witness ==
    \E t1, t2 \in Threads :
        /\ t1 # t2
        /\ pc[t1] = "done"
        /\ pc[t2] = "done"
        /\ t_columns[t1] = t_columns[t2]
        /\ t_seed[t1] # 0
        /\ \E k \in DOMAIN ConcInputs :
            ConcInputs[k] # t_columns[t1] /\ first_result[k] # <<>>

\* ---- single calls (Spec)
IsSupportedColumn(c) == c.type \in SupportedTypes

HashRangeDone == phase = "executed" /\ fn = "NuColumnarHashRange"

ConsistentHashDone == phase = "executed" /\ fn = "NuColumnarConsistentHash"

\* the argument types are the ones the function asks for
WellTyped(types) ==
    Len(types) = 3 /\ types[1] = "String" /\ types[2] = "UInt32" /\ types[3] = "UInt32"

\* the first argument (numbered from 0) whose type is wrong
FirstWrongArg(types) ==
    IF types[1] # "String" THEN 0 ELSE IF types[2] # "UInt32" THEN 1 ELSE 2

\* the values of row 0 of the call
Row0Table == block[1].data[1]
Row0Date == block[2].data[1]
Row0RangeId == block[3].data[1]

\* the string the dictionary holds for the call's composite key under "A"
StoredShard == getString(dict, "A", <<Row0Table, to_string(Row0Date), Row0RangeId>>)

\* the call reached the lookup in a loadable complex-key dictionary
LookupDone ==
    /\ ConsistentHashDone
    /\ WellTyped(arg_types)
    /\ dict.loadable
    /\ dict.kind = "ComplexKeyHashedDictionary"

\* str is the decimal form of an unsigned integer of the shard id's type
IsUnsignedDecimal(str) ==
    /\ str # <<>>
    /\ \A i \in DOMAIN str : IsDigit(str[i])
    /\ DigitsValue(0, str) <= UINT32_MAX

\* C5: when the dictionary is loadable, of the complex-key kind, and holds for
\* the key (table, decimal string of date, rangeId) under attribute "A" the
\* decimal form of an unsigned integer s, the call returns exactly s.
C5_ReturnsTheStoredShard ==
    (LookupDone /\ IsUnsignedDecimal(StoredShard)) =>
        outcome = ResultColumn(<<DigitsValue(0, StoredShard)>>)

\* the error codes of the two other failures of lookupShard
CodeWhenNotLoadable ==
    lookupShard([loadable |-> FALSE, kind |-> "none", shardA |-> <<>>],
                Row0Table, Row0Date, Row0RangeId, ActiveVersion).ret

CodeWhenWrongKind ==
    lookupShard([loadable |-> TRUE, kind |-> "FlatDictionary", shardA |-> <<>>],
                Row0Table, Row0Date, Row0RangeId, ActiveVersion).ret

EmptyLookup == LookupDone /\ StoredShard = <<>>

\* C6 as claimed: an empty lookup result fails with an error whose kind is
\* distinct from the kinds of the not-loadable and wrong-dictionary failures,
\* and produces no shard id, without a retry.
C6_ShardNotFoundIsItsOwnKind ==
    EmptyLookup =>
        /\ outcome.kind = "exception"
        /\ outcome.code # CodeWhenNotLoadable.code
        /\ outcome.code # CodeWhenWrongKind.code
        /\ outcome.column = <<>>
        /\ dict_calls = [getDictionary |-> 1, getString |-> 1]

\* C6 as amended: an empty lookup result fails with a DB::Exception of code
\* ILLEGAL_TYPE_OF_ARGUMENT, the code of the not-loadable and wrong-dictionary
\* failures too, from which only its message text tells it apart; it carries
\* the lookup context and produces no shard id, after one getDictionary and
\* one getString call.
C6_ShardNotFoundSharesTheCode ==
    EmptyLookup =>
        /\ outcome.kind = "exception"
        /\ outcome.exc_type = "DB::Exception"
        /\ outcome.code = "ILLEGAL_TYPE_OF_ARGUMENT"
        /\ outcome.code = CodeWhenNotLoadable.code
        /\ outcome.code = CodeWhenWrongKind.code
        /\ outcome.text = "Shard not found in dictionary partition_map_dict for "
        /\ outcome.text # CodeWhenNotLoadable.text
        /\ outcome.text # CodeWhenWrongKind.text
        /\ outcome.context = <<Row0Table, Row0Date, Row0RangeId, "A">>
        /\ outcome.column = <<>>
        /\ dict_calls = [getDictionary |-> 1, getString |-> 1]

C6_Witness ==
    /\ EmptyLookup
    /\ dict.shardA # <<>>
    /\ Row0Table = "orders"
    /\ Row0Date = 12
    /\ Row0RangeId # 5
    /\ outcome.kind = "exception"

\* C7: a non-empty stored string that is not the decimal form of an unsigned
\* integer makes the call fail; no shard id comes out of it.
C7_NonNumericShardFails ==
    (LookupDone /\ StoredShard # <<>> /\ ~IsUnsignedDecimal(StoredShard)) =>
        /\ outcome.kind = "exception"
        /\ outcome.column = <<>>

\* C8 as claimed: a call whose declared argument types are wrong fails when
\* the function is bound, as a call with the wrong number of arguments does.
C8_TypeErrorAtBindTime ==
    (fn = "NuColumnarConsistentHash" /\ phase # "idle" /\ ~WellTyped(arg_types)) =>
        phase = "bind_failed"

\* C8 as amended: binding checks the number of arguments only; a call with
\* three arguments of which one has the wrong type fails in executeImpl, with
\* a DB::Exception of code ILLEGAL_COLUMN, before any dictionary call and
\* before the offending argument or any later one is read, but after row 0 of
\* the table argument was read when that one has the right type; a well-typed
\* call raises no such error.
C8_TypeErrorAtExecution ==
    fn = "NuColumnarConsistentHash" =>
        /\ phase = "bind_failed" =>
            /\ Len(arg_types) # 3
            /\ outcome.code = "NUMBER_OF_ARGUMENTS_DOESNT_MATCH"
        /\ phase \in {"bound", "executed"} => Len(arg_types) = 3
        /\ (phase = "executed" /\ ~WellTyped(arg_types)) =>
            /\ outcome.kind = "exception"
            /\ outcome.exc_type = "DB::Exception"
            /\ outcome.code = "ILLEGAL_COLUMN"
            /\ outcome.column = <<>>
            /\ dict_calls = NoCalls
            /\ \A rd \in reads : rd[1] < FirstWrongArg(arg_types)
            /\ FirstWrongArg(arg_types) > 0 => <<0, 0>> \in reads
        /\ (phase = "executed" /\ WellTyped(arg_types)) =>
            /\ outcome.code # "ILLEGAL_COLUMN"
            /\ dict_calls.getDictionary = 1

C8_Witness ==
    /\ ConsistentHashDone
    /\ arg_types = <<"String", "UInt32", "String">>
    /\ reads = {<<0, 0>>, <<1, 0>>}
    /\ outcome.code = "ILLEGAL_COLUMN"
    /\ dict.loadable

\* C9: every error a shard resolution ends with carries the table, date,
\* rangeId and version of the call.
C9_ErrorsCarryTheContext ==
    (ConsistentHashDone /\ dict_calls.getDictionary > 0 /\ outcome.kind = "exception") =>
        outcome.context = <<Row0Table, Row0Date, Row0RangeId, "A">>

\* the block cut down to its row r (numbered from 0)
RowBlock(b, r) == [a \in DOMAIN b |-> [type |-> b[a].type, data |-> <<b[a].data[r + 1]>>]]

NumRows(b) == Len(b[1].data)

====
